---- MODULE Spec2Model ----
(***************************************************************************)
(* A model of anomalib's AnomalyModule                                     *)
(* (src/anomalib/models/components/base/anomaly_module.py) and of the      *)
(* export test of tests/integration/model/test_models.py.                  *)
(*                                                                         *)
(* Python strings are sequences of atoms; the atom "." is the character    *)
(* str.split(".") and ".".join work on, every other atom is a dot-free     *)
(* piece of text.  A mapping (OrderedDict) is a sequence of entries        *)
(* [k, v] with pairwise distinct keys, in insertion order.                 *)
(***************************************************************************)
EXTENDS Integers, Sequences, FiniteSets, TLC

\* ------------------------------------------------------------------ bounds
\* Longest list of non-marker keys in a state mapping handed to load_state_dict.
MaxMetricKeys == 2

\* ----------------------------------------------------------------- strings
DOT == "."

Str(atom) == <<atom>>

\* The index of the first "." of s, 0 when there is none.
FirstDot(s) ==
    IF \E i \in 1..Len(s) : s[i] = DOT
    THEN CHOOSE i \in 1..Len(s) : s[i] = DOT /\ \A j \in 1..(i - 1) : s[j] # DOT
    ELSE 0

\* str.split("."): n dots give n + 1 segments, empty ones included.
RECURSIVE Split(_)
Split(s) ==
    IF FirstDot(s) = 0
    THEN <<s>>
    ELSE <<SubSeq(s, 1, FirstDot(s) - 1)>> \o Split(SubSeq(s, FirstDot(s) + 1, Len(s)))

\* ".".join(segs)
RECURSIVE Join(_)
Join(segs) ==
    IF Len(segs) = 0 THEN <<>>
    ELSE IF Len(segs) = 1 THEN segs[1]
    ELSE segs[1] \o <<DOT>> \o Join(Tail(segs))

\* Text of the atoms that begin with "pixel_metrics" / "image_metrics".
AtomsWithPrefix ==
    [pixel |-> {"pixel_metrics", "pixel_metrics_v2"},
     image |-> {"image_metrics"}]

\* key.startswith(f"{name}_metrics")
StartsWithMetrics(key, name) == Len(key) > 0 /\ key[1] \in AtomsWithPrefix[name]

\* ---------------------------------------------------- classes and modules
ModMetrics == <<"anomalib", DOT, "metrics">>
ModThreshold == <<"anomalib", DOT, "metrics", DOT, "threshold">>
ModPlugin == <<"plugin">>

Classes ==
    {"F1AdaptiveThreshold", "ManualThreshold", "MinMax", "AUROC", "F1Score",
     "LocalThreshold", "PluginThreshold", "StaleThreshold", "BoundedThreshold"}

\* cls.__module__
ClassModule ==
    [c \in Classes |->
        CASE c \in {"F1AdaptiveThreshold", "ManualThreshold", "LocalThreshold",
                    "StaleThreshold", "BoundedThreshold"} -> ModThreshold
          [] c \in {"MinMax", "AUROC", "F1Score"} -> ModMetrics
          [] OTHER -> ModPlugin]

\* cls.__name__ ; StaleThreshold is an earlier definition of ManualThreshold
\* that the module has since rebound.
ClassName ==
    [c \in Classes |-> IF c = "StaleThreshold" THEN Str("ManualThreshold") ELSE Str(c)]

\* Whether cls() works without arguments.
ZeroArg == [c \in Classes |-> c # "BoundedThreshold"]

\* What importlib.import_module finds: the importable modules and the
\* classes bound in each.  LocalThreshold is defined inside a function and
\* PluginThreshold lives in a module that is not installed.
Namespace ==
    (ModThreshold :> (Str("F1AdaptiveThreshold") :> "F1AdaptiveThreshold"
                      @@ Str("ManualThreshold") :> "ManualThreshold"
                      @@ Str("BoundedThreshold") :> "BoundedThreshold"))
    @@ (ModMetrics :> (Str("AUROC") :> "AUROC"
                       @@ Str("F1Score") :> "F1Score"
                       @@ Str("MinMax") :> "MinMax"
                       @@ Str("F1AdaptiveThreshold") :> "F1AdaptiveThreshold"
                       @@ Str("ManualThreshold") :> "ManualThreshold"))

\* ---------------------------------------------------------------- values
Absent == [kind |-> "absent"]
NoError == [kind |-> "none"]
Nil == <<>>

Exc(kind, names, cause) == [kind |-> kind, names |-> names, cause |-> cause]

\* An instance of class c, made by the subclass constructor or by a load.
Obj(c, by) == [kind |-> "obj", cls |-> c, by |-> by]

\* AnomalibMetricCollection([], prefix=name): the object id, its prefix and
\* the metric instances added so far.
Collection(id, prefix, metrics) ==
    [kind |-> "coll", id |-> id, prefix |-> prefix, metrics |-> metrics]

Tensor == Str("<tensor>")

Entry(k, v) == [k |-> k, v |-> v]

\* ---------------------------------------------------------------- mappings
Keys(d) == [i \in 1..Len(d) |-> d[i].k]

HasKey(d, k) == \E i \in 1..Len(d) : d[i].k = k

Get(d, k) == d[CHOOSE i \in 1..Len(d) : d[i].k = k].v

\* d[k] = v : an existing key keeps its place, a new one goes last.
Put(d, k, v) ==
    IF HasKey(d, k)
    THEN [i \in 1..Len(d) |-> IF d[i].k = k THEN Entry(k, v) ELSE d[i]]
    ELSE Append(d, Entry(k, v))

\* Mutant: the entry is read and left in place.
Remove_KeepsEntry(d, k) == d

\* d.pop(k), the mapping that is left.
Remove(d, k) == SelectSeq(d, LAMBDA e : e.k # k)


\* ------------------------------------------------------------------ state
VARIABLES
    attrs,        \* the instance's attributes: Absent, a threshold object, a collection
    loaded,       \* load_state_dict has been called on this instance
    state_dict,   \* the mapping object last handed to save or load, as the call left it
    fromSave,     \* state_dict is what _save_to_state_dict produced
    savedAttrs,   \* attrs as they were when _save_to_state_dict last ran
    preAttrs,     \* attrs as they were when the last load_state_dict started
    preState,     \* the mapping as it was when the last save or load started
    raised,       \* the exception the last call ended in, NoError when it returned
    superSave,    \* the snapshots of destination the framework's save routine saw
    superLoad,    \* the snapshots of state_dict the framework's load routine saw
    attempts,     \* the class resolutions of the last load, in order
    insts,        \* the instantiations of the last load, in order
    reached,      \* the prefixes whose _add_metrics call the last load got to
    lastOp        \* "init", "save", "new", "load" or, of a produced mapping, "load_saved"

ckptVars ==
    <<attrs, loaded, state_dict, fromSave, savedAttrs, preAttrs, preState, raised,
      superSave, superLoad, attempts, insts, reached, lastOp>>

ThresholdAttrs == {"image_threshold", "pixel_threshold", "normalization_metrics"}
MetricAttrs == {"pixel_metrics", "image_metrics"}

\* The marker key of each attribute.
MarkerKey ==
    [image_threshold |-> Str("image_threshold_class"),
     pixel_threshold |-> Str("pixel_threshold_class"),
     normalization_metrics |-> Str("normalization_class")]

MarkerKeys == {MarkerKey[a] : a \in ThresholdAttrs}

\* AnomalyModule.__init__ only annotates the attributes: none is assigned.
NoAttrs ==
    [image_threshold |-> Absent, pixel_threshold |-> Absent,
     normalization_metrics |-> Absent, pixel_metrics |-> Absent,
     image_metrics |-> Absent]

hasattr(a, name) == a[name] # Absent

\* --------------------------------------------------- _save_to_state_dict
\* Mutant: the class name alone is recorded.
ClassPath_NameOnly(c) == ClassName[c]

\* f"{cls.__module__}.{cls.__name__}"
ClassPath(c) == ClassModule[c] \o <<DOT>> \o ClassName[c]

\* One "if hasattr(self, attr): destination[key] = class path" statement.
SaveMarker(a, destination, attr) ==
    IF hasattr(a, attr)
    THEN Put(destination, MarkerKey[attr], ClassPath(a[attr].cls))
    ELSE destination

\* The three statements, in the order of the code.
SaveMarkers(a, destination) ==
    SaveMarker(a,
        SaveMarker(a, SaveMarker(a, destination, "image_threshold"), "pixel_threshold"),
        "normalization_metrics")

\* torch.nn.Module._save_to_state_dict: the module's own tensors go in under
\* prefix + name.
RECURSIVE FrameworkSave(_, _, _)
FrameworkSave(destination, prefix, tensors) ==
    IF Len(tensors) = 0 THEN destination
    ELSE FrameworkSave(Put(destination, prefix \o tensors[1], Tensor), prefix, Tail(tensors))

\* Mutant: the framework's routine runs before the markers are written.
save_to_state_dict_DelegatesFirst(a, destination, prefix, tensors) ==
    [seen |-> destination,
     dest |-> SaveMarkers(a, FrameworkSave(destination, prefix, tensors))]

\* _save_to_state_dict: the mapping the framework's routine is handed and the
\* mapping it leaves.
save_to_state_dict(a, destination, prefix, tensors) ==
    [seen |-> SaveMarkers(a, destination),
     dest |-> FrameworkSave(SaveMarkers(a, destination), prefix, tensors)]

\* ------------------------------------------------------- load_state_dict
\* _get_instance: pop the class path, import the module named by all but its
\* last segment, read the last segment off the module and call it.
get_instance(sd, dict_key) ==
    LET class_path == Get(sd, dict_key)
        segs == Split(class_path)
        modname == Join(SubSeq(segs, 1, Len(segs) - 1))
        attr == segs[Len(segs)]
        left == Remove(sd, dict_key)
    IN  IF modname = <<>>
        THEN [sd |-> left, ok |-> FALSE, resolved |-> FALSE,
              err |-> Exc("ValueError", {}, Nil)]
        ELSE IF modname \notin DOMAIN Namespace
        THEN [sd |-> left, ok |-> FALSE, resolved |-> FALSE,
              err |-> Exc("ModuleNotFoundError", {modname}, Nil)]
        ELSE IF attr \notin DOMAIN Namespace[modname]
        THEN [sd |-> left, ok |-> FALSE, resolved |-> FALSE,
              err |-> Exc("AttributeError", {modname, attr}, Nil)]
        ELSE IF ~ZeroArg[Namespace[modname][attr]]
        THEN [sd |-> left, ok |-> FALSE, resolved |-> TRUE,
              err |-> Exc("TypeError", {attr}, Nil)]
        ELSE [sd |-> left, ok |-> TRUE, resolved |-> TRUE,
              obj |-> Obj(Namespace[modname][attr], "load")]

\* What one load_state_dict call carries from statement to statement.
LoadCtx(a, sd) ==
    [attrs |-> a, sd |-> sd, raised |-> NoError, superLoad |-> <<>>,
     attempts |-> <<>>, insts |-> <<>>, reached |-> {}]

Attempt(key, resolved) == [key |-> key, resolved |-> resolved]

\* cls() was called for the entry under key.
Inst(key, cls) == [key |-> key, cls |-> cls]

\* if "<marker>" in state_dict: self.<attr> = self._get_instance(state_dict, "<marker>")
LoadMarker(ctx, attr) ==
    IF ctx.raised # NoError \/ ~HasKey(ctx.sd, MarkerKey[attr])
    THEN ctx
    ELSE LET g == get_instance(ctx.sd, MarkerKey[attr])
             c1 == [ctx EXCEPT !.sd = g.sd,
                               !.attempts = Append(@, Attempt(MarkerKey[attr], g.resolved))]
         IN  IF g.ok
             THEN [c1 EXCEPT !.attrs[attr] = g.obj, !.insts = Append(@, Inst(MarkerKey[attr], g.obj.cls))]
             ELSE [c1 EXCEPT !.raised = g.err]

\* metrics.add_metrics(metric): the instance joins the collection.
add_metrics(coll, cls) == [coll EXCEPT !.metrics = Append(@, cls)]

\* f"{name}_metrics"
MetricAttr == [pixel |-> "pixel_metrics", image |-> "image_metrics"]

\* Mutant: a class that is not found is passed over.
AddMetric_SkipsUnknown(ctx, name, key) ==
    IF Len(Split(key)) < 2
    THEN [ctx EXCEPT !.raised = Exc("IndexError", {}, Nil)]
    ELSE IF Split(key)[2] \notin DOMAIN Namespace[ModMetrics]
    THEN [ctx EXCEPT !.attempts = Append(@, Attempt(key, FALSE))]
    ELSE [ctx EXCEPT
             !.attempts = Append(@, Attempt(key, TRUE)),
             !.insts = Append(@, Inst(key, Namespace[ModMetrics][Split(key)[2]])),
             !.attrs[MetricAttr[name]] = add_metrics(@, Namespace[ModMetrics][Split(key)[2]])]

\* The body of "for key in metric_keys" for one key.
AddMetric(ctx, name, key) ==
    LET attr == MetricAttr[name]
        segs == Split(key)
    IN  IF Len(segs) < 2
        THEN [ctx EXCEPT !.raised = Exc("IndexError", {}, Nil)]
        ELSE LET class_name == segs[2]
                 found == class_name \in DOMAIN Namespace[ModMetrics]
                 c1 == [ctx EXCEPT !.attempts = Append(@, Attempt(key, found))]
             IN  IF ~found
                 THEN [c1 EXCEPT !.raised =
                          Exc("ImportError", {class_name, ModMetrics}, "AttributeError")]
                 ELSE [c1 EXCEPT
                          !.insts = Append(@, Inst(key, Namespace[ModMetrics][class_name])),
                          !.attrs[attr] = add_metrics(@, Namespace[ModMetrics][class_name])]

\* for key in metric_keys: ... ; an exception ends the loop.
RECURSIVE AddMetricsLoop(_, _, _)
AddMetricsLoop(ctx, name, metric_keys) ==
    IF Len(metric_keys) = 0 \/ ctx.raised # NoError
    THEN ctx
    ELSE AddMetricsLoop(AddMetric(ctx, name, metric_keys[1]), name, Tail(metric_keys))

\* The id a collection created now gets: one no collection of the instance has.
UsedIds(a) == {a[m].id : m \in {n \in MetricAttrs : hasattr(a, n)}}

NewId(a) == CHOOSE i \in 1..3 : i \notin UsedIds(a) /\ \A j \in 1..(i - 1) : j \in UsedIds(a)

\* Mutant: the collection is made anew whether or not one exists.
AddMetrics_AlwaysCreates(ctx, name) ==
    IF ctx.raised # NoError
    THEN ctx
    ELSE IF Len(SelectSeq(Keys(ctx.sd), LAMBDA k : StartsWithMetrics(k, name))) = 0
    THEN [ctx EXCEPT !.reached = @ \cup {name}]
    ELSE AddMetricsLoop(
             [ctx EXCEPT !.reached = @ \cup {name},
                         !.attrs[MetricAttr[name]] = Collection(NewId(ctx.attrs), name, <<>>)],
             name, SelectSeq(Keys(ctx.sd), LAMBDA k : StartsWithMetrics(k, name)))

\* _add_metrics(name, state_dict)
AddMetrics(ctx, name) ==
    LET attr == MetricAttr[name]
        metric_keys == SelectSeq(Keys(ctx.sd), LAMBDA k : StartsWithMetrics(k, name))
    IN  IF ctx.raised # NoError
        THEN ctx
        ELSE IF Len(metric_keys) = 0
        THEN [ctx EXCEPT !.reached = @ \cup {name}]
        ELSE AddMetricsLoop(
                 IF hasattr(ctx.attrs, attr)
                 THEN [ctx EXCEPT !.reached = @ \cup {name}]
                 ELSE [ctx EXCEPT !.reached = @ \cup {name},
                                  !.attrs[attr] = Collection(NewId(ctx.attrs), name, <<>>)],
                 name, metric_keys)

\* _load_metrics(state_dict)
LoadMetrics(ctx) == AddMetrics(AddMetrics(ctx, "pixel"), "image")

\* return super().load_state_dict(state_dict, strict)
FrameworkLoad(ctx, strict) ==
    IF ctx.raised # NoError THEN ctx
    ELSE [ctx EXCEPT !.superLoad = Append(@, [state_dict |-> ctx.sd, strict |-> strict])]

\* The three "if ... in state_dict" statements, in the order of the code.
LoadMarkers(ctx) ==
    LoadMarker(LoadMarker(LoadMarker(ctx, "image_threshold"), "pixel_threshold"),
               "normalization_metrics")

\* load_state_dict(state_dict, strict)
load_state_dict(a, sd, strict) ==
    FrameworkLoad(LoadMetrics(LoadMarkers(LoadCtx(a, sd))), strict)


\* ------------------------------------------------------------------ inputs
\* What a subclass constructor may assign to a threshold attribute.
ThresholdChoices(S) == {Absent} \cup {Obj(c, "constructor") : c \in S}

\* A metric collection the constructor made, or none.
CollectionChoices(id, name) == {Absent, Collection(id, name, <<"AUROC">>)}

AnyThreshold ==
    {"F1AdaptiveThreshold", "MinMax", "LocalThreshold", "PluginThreshold",
     "StaleThreshold", "BoundedThreshold"}

\* The instances that are saved.
SaveAssignments ==
    [image_threshold : ThresholdChoices(AnyThreshold),
     pixel_threshold : ThresholdChoices(AnyThreshold),
     normalization_metrics : ThresholdChoices(AnyThreshold),
     pixel_metrics : CollectionChoices(1, "pixel"),
     image_metrics : {Absent}]

\* The instances an outside checkpoint is loaded into.
LoadAssignments ==
    [image_threshold : ThresholdChoices({"ManualThreshold"}),
     pixel_threshold : {Absent},
     normalization_metrics : ThresholdChoices({"ManualThreshold"}),
     pixel_metrics : CollectionChoices(1, "pixel"),
     image_metrics : CollectionChoices(2, "image")]

\* The class paths an outside checkpoint may carry: a class that resolves, a
\* class its module does not hold, a class of a module that cannot be imported.
MarkerPaths ==
    {ClassPath("F1AdaptiveThreshold"), ClassPath("LocalThreshold"),
     ClassPath("PluginThreshold")}

MarkerChoices == {<<>>} \cup MarkerPaths

\* The marker entries, in the order _save_to_state_dict writes them.
MarkerEntries(i, p, n) ==
    (IF i = <<>> THEN <<>> ELSE <<Entry(MarkerKey["image_threshold"], i)>>)
    \o (IF p = <<>> THEN <<>> ELSE <<Entry(MarkerKey["pixel_threshold"], p)>>)
    \o (IF n = <<>> THEN <<>> ELSE <<Entry(MarkerKey["normalization_metrics"], n)>>)

\* The other keys of a checkpoint: metric state under both prefixes (two
\* entries of one metric class among them, and a key that only starts with
\* the prefix), a metric class that does not exist, and a tensor of the model.
OtherKeys ==
    {<<"pixel_metrics", DOT, "AUROC", DOT, "fpr">>,
     <<"pixel_metrics", DOT, "AUROC", DOT, "tpr">>,
     <<"image_metrics", DOT, "F1Score", DOT, "threshold">>,
     <<"pixel_metrics", DOT, "Retired", DOT, "value">>,
     <<"pixel_metrics_v2", DOT, "F1Score", DOT, "threshold">>,
     <<"model", DOT, "weight">>}

Injective(f) == \A i, j \in DOMAIN f : i # j => f[i] # f[j]

KeyLists ==
    {ks \in UNION {[1..n -> OtherKeys] : n \in 0..MaxMetricKeys} : Injective(ks)}

TensorEntries(ks) == [i \in 1..Len(ks) |-> Entry(ks[i], Tensor)]

StateDicts ==
    {MarkerEntries(i, p, n) \o TensorEntries(ks) :
        i \in MarkerChoices, p \in MarkerChoices, n \in MarkerChoices, ks \in KeyLists}

\* The mappings state_dict() hands to _save_to_state_dict, the prefixes and
\* the module's own tensors.
Destinations == {<<>>, <<Entry(<<"_extra_state">>, Tensor)>>}
Prefixes == {<<>>, <<"detector", DOT>>}
OwnTensors == {<<>>, <<Str("anchor")>>}

\* ----------------------------------------------------------------- actions
\* The state once the subclass constructor has run: it has assigned what it
\* assigns, nothing was saved or loaded yet.
CkptInit(assignments) ==
    /\ attrs \in assignments
    /\ loaded = FALSE
    /\ state_dict = <<>>
    /\ fromSave = FALSE
    /\ savedAttrs = NoAttrs
    /\ preAttrs = NoAttrs
    /\ preState = <<>>
    /\ raised = NoError
    /\ superSave = <<>>
    /\ superLoad = <<>>
    /\ attempts = <<>>
    /\ insts = <<>>
    /\ reached = {}
    /\ lastOp = "init"

\* A fresh instance in the same process: AnomalyModule.__init__ alone, the
\* mapping that was produced is still there.
NewInstance ==
    /\ fromSave
    /\ attrs # NoAttrs \/ loaded
    /\ attrs' = NoAttrs
    /\ loaded' = FALSE
    /\ lastOp' = "new"
    /\ UNCHANGED <<state_dict, fromSave, savedAttrs, preAttrs, preState, raised,
                   superSave, superLoad, attempts, insts, reached>>

\* self._save_to_state_dict(destination, prefix, keep_vars)
SaveToStateDict(destination, prefix, tensors) ==
    /\ \E r \in {save_to_state_dict(attrs, destination, prefix, tensors)} :
           /\ state_dict' = r.dest
           /\ superSave' = <<r.seen>>
    /\ fromSave' = TRUE
    /\ savedAttrs' = attrs
    /\ preState' = destination
    /\ raised' = NoError
    /\ superLoad' = <<>>
    /\ attempts' = <<>>
    /\ insts' = <<>>
    /\ reached' = {}
    /\ lastOp' = "save"
    /\ UNCHANGED <<attrs, loaded, preAttrs>>

\* self.load_state_dict(state_dict, strict)
LoadStateDict(sd, strict) ==
    /\ ~loaded
    /\ \E r \in {load_state_dict(attrs, sd, strict)} :
           /\ attrs' = r.attrs
           /\ state_dict' = r.sd
           /\ raised' = r.raised
           /\ superLoad' = r.superLoad
           /\ attempts' = r.attempts
           /\ insts' = r.insts
           /\ reached' = r.reached
    /\ loaded' = TRUE
    /\ preAttrs' = attrs
    /\ preState' = sd
    /\ superSave' = <<>>
    /\ fromSave' = FALSE
    /\ lastOp' = IF fromSave THEN "load_saved" ELSE "load"
    /\ UNCHANGED savedAttrs

\* --------------------------------------------------------- step functions
VARIABLES
    overrides,    \* the members the subclass under use defines itself
    stepOp,       \* the last call made on an instance of it, with its arguments
    stepOut,      \* what that call returned, NoValue when it raised
    stepRaised,   \* the exception that call ended in, NoError when it returned
    calls,        \* the calls validation_step received during it, in order
    outs          \* per step function, its last call's arguments and outcome

stepVars == <<overrides, stepOp, stepOut, stepRaised, calls, outs>>

NoValue == [kind |-> "novalue"]
NoCall == [kind |-> "nocall"]

\* The members a subclass may leave to the base class.
OverrideNames == {"validation_step", "trainer_arguments", "learning_type"}

\* The members declared with @abstractproperty on the ABC.
AbstractNames == {"trainer_arguments", "learning_type"}

\* ABC: a class with an abstract member left cannot be instantiated.
CanInstantiate(ov) == AbstractNames \subseteq ov

\* What a call hands over: the batch, the other positional arguments, the
\* keyword arguments.
Args(batch, args, kwargs) == [batch |-> batch, args |-> args, kwargs |-> kwargs]

\* The outcome of a call: a value or an exception, and the calls that
\* reached validation_step.
Returned(v, cs) == [out |-> v, raised |-> NoError, calls |-> cs]
Raised(kind, cs) == [out |-> NoValue, raised |-> Exc(kind, {}, Nil), calls |-> cs]

\* The subclass's validation_step: its output may depend on everything it is
\* handed.
SubclassValidationStep(batch, args, kwargs) ==
    [kind |-> "value", of |-> Args(batch, args, kwargs)]

\* Mutant: the base method returns nothing instead of raising.
BaseValidationStep_Returns(batch, args, kwargs) == Returned(NoValue, <<>>)

\* AnomalyModule.validation_step: raise NotImplementedError
BaseValidationStep(batch, args, kwargs) == Raised("NotImplementedError", <<>>)

\* self.validation_step(batch, *args, **kwargs), by method resolution.
validation_step(ov, batch, args, kwargs) ==
    IF "validation_step" \in ov
    THEN Returned(SubclassValidationStep(batch, args, kwargs), <<Args(batch, args, kwargs)>>)
    ELSE [BaseValidationStep(batch, args, kwargs) EXCEPT !.calls = <<Args(batch, args, kwargs)>>]

EmptyKw == <<>>

\* Mutant: the dataloader index is passed on.
predict_step_PassesDataloaderIdx(ov, batch, batch_idx, dataloader_idx) ==
    validation_step(ov, batch, <<batch_idx, dataloader_idx>>, EmptyKw)

\* predict_step: del dataloader_idx; return self.validation_step(batch, batch_idx)
predict_step(ov, batch, batch_idx, dataloader_idx) ==
    validation_step(ov, batch, <<batch_idx>>, EmptyKw)

\* test_step: del args, kwargs; return self.predict_step(batch, batch_idx)
test_step(ov, batch, batch_idx, args, kwargs) == predict_step(ov, batch, batch_idx, 0)

\* The trainer_arguments property: the subclass's, or raise NotImplementedError.
trainer_arguments(ov) ==
    IF "trainer_arguments" \in ov
    THEN Returned([kind |-> "value", of |-> "trainer_arguments"], <<>>)
    ELSE Raised("NotImplementedError", <<>>)

\* The learning_type property: the subclass's, or raise NotImplementedError.
learning_type(ov) ==
    IF "learning_type" \in ov
    THEN Returned([kind |-> "value", of |-> "learning_type"], <<>>)
    ELSE Raised("NotImplementedError", <<>>)

\* Subclass(): an instance to make the call on, or TypeError from ABC.
OnInstance(ov, outcome) ==
    IF CanInstantiate(ov) THEN outcome ELSE Raised("TypeError", <<>>)

Batches == {"batch_a", "batch_b"}
BatchIdx == {0, 1}
DataloaderIdx == {0, 1}
ExtraArgs == {<<>>, <<7>>}
ExtraKw == {EmptyKw, <<"flag">>}

NoOuts == [validation_step |-> NoCall, predict_step |-> NoCall, test_step |-> NoCall]

StepInit ==
    /\ overrides \in SUBSET OverrideNames
    /\ stepOp = [name |-> "none"]
    /\ stepOut = NoValue
    /\ stepRaised = NoError
    /\ calls = <<>>
    /\ outs = NoOuts

\* The bookkeeping of one call.
Record(op, r) ==
    /\ stepOp' = op
    /\ stepOut' = r.out
    /\ stepRaised' = r.raised
    /\ calls' = r.calls
    /\ outs' = IF op.name \in DOMAIN outs
               THEN [outs EXCEPT ![op.name] =
                        [batch |-> op.batch, batch_idx |-> op.batch_idx,
                         out |-> r.out, raised |-> r.raised]]
               ELSE outs
    /\ UNCHANGED overrides

\* Subclass().validation_step(batch, batch_idx)
ValidationStep(batch, batch_idx) ==
    \E r \in {OnInstance(overrides, validation_step(overrides, batch, <<batch_idx>>, EmptyKw))} :
        Record([name |-> "validation_step", batch |-> batch, batch_idx |-> batch_idx], r)

\* Subclass().predict_step(batch, batch_idx, dataloader_idx)
PredictStep(batch, batch_idx, dataloader_idx) ==
    \E r \in {OnInstance(overrides, predict_step(overrides, batch, batch_idx, dataloader_idx))} :
        Record([name |-> "predict_step", batch |-> batch, batch_idx |-> batch_idx,
                dataloader_idx |-> dataloader_idx], r)

\* Subclass().test_step(batch, batch_idx, *args, **kwargs)
TestStep(batch, batch_idx, args, kwargs) ==
    \E r \in {OnInstance(overrides, test_step(overrides, batch, batch_idx, args, kwargs))} :
        Record([name |-> "test_step", batch |-> batch, batch_idx |-> batch_idx,
                args |-> args, kwargs |-> kwargs], r)

\* Subclass().trainer_arguments
ReadTrainerArguments ==
    \E r \in {OnInstance(overrides, trainer_arguments(overrides))} :
        Record([name |-> "trainer_arguments"], r)

\* Subclass().learning_type
ReadLearningType ==
    \E r \in {OnInstance(overrides, learning_type(overrides))} :
        Record([name |-> "learning_type"], r)

\* ------------------------------------------------------------ export test
VARIABLES
    testCase,     \* the parameters of the export test that ran last
    testOutcome,  \* "skipped" with its reason, or "passed"
    objects,      \* the _get_objects calls it made, in order
    exportCalls   \* the engine.export calls it made, in order

exportVars == <<testCase, testOutcome, objects, exportCalls>>

\* get_available_models(): the names the test file treats apart, and others.
ModelNames ==
    {"reverse_distillation", "ai_vad", "win_clip", "uflow", "patchcore", "rkde",
     "dfkde", "ganomaly", "efficient_ad", "padim"}

\* list(ExportType)
ExportTypes == {"torch", "onnx", "openvino"}

ProjectPaths == {"/tmp/project", "/tmp/other"}
DatasetPaths == {"/data", "/mnt/data"}

\* f"{project_path}/{model_name}/dummy/weights/last.ckpt"
CkptPath(project_path, model_name) ==
    <<project_path, "/", model_name, "/dummy/weights/last.ckpt">>

\* _get_objects(model_name, dataset_path, project_path)
get_objects(model_name, dataset_path, project_path) ==
    LET task_type ==
            IF model_name \in {"rkde", "ai_vad"} THEN "DETECTION"
            ELSE IF model_name \in {"ganomaly", "dfkde"} THEN "CLASSIFICATION"
            ELSE "SEGMENTATION"
        extra_args ==
            IF model_name = "patchcore" THEN <<"input_size", <<256, 256>>>>
            ELSE IF model_name \in {"rkde", "dfkde"} THEN <<"n_pca_components", 2>>
            ELSE <<>>
        dataset ==
            IF model_name = "ai_vad"
            THEN [cls |-> "UCSDped", root |-> <<dataset_path, "/", "ucsdped">>,
                  task |-> task_type]
            ELSE IF model_name = "win_clip"
            THEN [cls |-> "MVTec", root |-> <<dataset_path, "/", "mvtec">>,
                  image_size |-> <<240>>, task |-> task_type]
            ELSE [cls |-> "MVTec", root |-> <<dataset_path, "/", "mvtec">>,
                  task |-> task_type, train_batch_size |-> 2,
                  image_size |-> IF model_name = "uflow" THEN <<448, 448>> ELSE <<256, 256>>]
    IN  [model |-> [name |-> model_name, extra_args |-> extra_args],
         dataset |-> dataset,
         engine |-> [default_root_dir |-> project_path, task |-> task_type,
                     dirpath |-> <<project_path, "/", model_name, "/dummy/weights">>,
                     max_steps |-> IF model_name = "efficient_ad" THEN 70000 ELSE 0 - 1]]

\* pytest.skip(reason): the test ends here.
Skip(reason) ==
    [outcome |-> [kind |-> "skipped", reason |-> reason], objects |-> <<>>, exports |-> <<>>]

\* The rest of the test: self._get_objects(...) and engine.export(...).
Export(model_name, export_type, dataset_path, project_path, input_size) ==
    [outcome |-> [kind |-> "passed"],
     objects |-> <<get_objects(model_name, dataset_path, project_path)>>,
     exports |-> <<[model |-> get_objects(model_name, dataset_path, project_path).model,
                    datamodule |-> get_objects(model_name, dataset_path, project_path).dataset,
                    ckpt_path |-> CkptPath(project_path, model_name),
                    export_type |-> export_type,
                    input_size |-> input_size]>>]

\* Mutant: the video model is exported like any other.
test_export_ExportsVideoModel(model_name, export_type, dataset_path, project_path) ==
    IF model_name = "reverse_distillation"
    THEN Skip("Reverse distillation fails to convert to ONNX")
    ELSE Export(model_name, export_type, dataset_path, project_path,
                IF model_name = "win_clip" THEN <<240, 240>>
                ELSE IF model_name = "uflow" THEN <<448, 448>>
                ELSE <<256, 256>>)

\* The test body up to its end or its pytest.skip.
test_export(model_name, export_type, dataset_path, project_path) ==
    IF model_name = "reverse_distillation"
    THEN Skip("Reverse distillation fails to convert to ONNX")
    ELSE IF model_name = "ai_vad"
    THEN Skip("Export fails for video models.")
    ELSE Export(model_name, export_type, dataset_path, project_path,
                IF model_name = "win_clip" THEN <<240, 240>>
                ELSE IF model_name = "uflow" THEN <<448, 448>>
                ELSE <<256, 256>>)

ExportInit ==
    /\ testCase = [model_name |-> "none"]
    /\ testOutcome = [kind |-> "none"]
    /\ objects = <<>>
    /\ exportCalls = <<>>

\* TestAPI.test_export(model_name, export_type, dataset_path, project_path)
TestExport(model_name, export_type, dataset_path, project_path) ==
    \E r \in {test_export(model_name, export_type, dataset_path, project_path)} :
        /\ testCase' = [model_name |-> model_name, export_type |-> export_type,
                        dataset_path |-> dataset_path, project_path |-> project_path]
        /\ testOutcome' = r.outcome
        /\ objects' = r.objects
        /\ exportCalls' = r.exports

\* ---------------------------------------------------------- specifications
vars == <<ckptVars, stepVars, exportVars>>

\* An outside checkpoint is loaded into an instance.
Init == CkptInit(LoadAssignments) /\ StepInit /\ overrides = {} /\ ExportInit

Load ==
    /\ ~loaded
    /\ \E sd \in StateDicts, strict \in BOOLEAN : LoadStateDict(sd, strict)
    /\ UNCHANGED <<stepVars, exportVars>>

Next == Load

Spec == Init /\ [][Next]_vars

\* An instance is saved and the mapping is loaded, into it or a fresh one.
SaveInit == CkptInit(SaveAssignments) /\ StepInit /\ overrides = {} /\ ExportInit

SaveNext ==
    \/ /\ \E d \in Destinations, p \in Prefixes, t \in OwnTensors : SaveToStateDict(d, p, t)
       /\ UNCHANGED <<stepVars, exportVars>>
    \/ NewInstance /\ UNCHANGED <<stepVars, exportVars>>
    \/ /\ fromSave /\ ~loaded
       /\ \E strict \in BOOLEAN : LoadStateDict(state_dict, strict)
       /\ UNCHANGED <<stepVars, exportVars>>

SaveSpec == SaveInit /\ [][SaveNext]_vars

\* The step functions and the two descriptors, on instances of a subclass.
StepSpecInit == CkptInit({NoAttrs}) /\ StepInit /\ ExportInit

StepNext ==
    \/ /\ \E b \in Batches, i \in BatchIdx : ValidationStep(b, i)
       /\ UNCHANGED <<ckptVars, exportVars>>
    \/ /\ \E b \in Batches, i \in BatchIdx, d \in DataloaderIdx : PredictStep(b, i, d)
       /\ UNCHANGED <<ckptVars, exportVars>>
    \/ /\ \E b \in Batches, i \in BatchIdx, a \in ExtraArgs, k \in ExtraKw : TestStep(b, i, a, k)
       /\ UNCHANGED <<ckptVars, exportVars>>
    \/ ReadTrainerArguments /\ UNCHANGED <<ckptVars, exportVars>>
    \/ ReadLearningType /\ UNCHANGED <<ckptVars, exportVars>>

StepSpec == StepSpecInit /\ [][StepNext]_vars

\* The export test, one parametrisation after another.
ExportSpecInit == CkptInit({NoAttrs}) /\ StepInit /\ overrides = {} /\ ExportInit

ExportNext ==
    /\ \E m \in ModelNames, e \in ExportTypes, d \in DatasetPaths, p \in ProjectPaths :
           TestExport(m, e, d, p)
    /\ UNCHANGED <<ckptVars, stepVars>>

ExportSpec == ExportSpecInit /\ [][ExportNext]_vars


\* ------------------------------------------------------------- properties
LoadDone == lastOp \in {"load", "load_saved"}

\* '<module>.<class name>' of class c.
DottedName(c) == ClassModule[c] \o <<DOT>> \o ClassName[c]

\* Importing c's module and reading c's name off it gives c itself.
SelfResolving(c) ==
    /\ ClassModule[c] \in DOMAIN Namespace
    /\ ClassName[c] \in DOMAIN Namespace[ClassModule[c]]
    /\ Namespace[ClassModule[c]][ClassName[c]] = c

\* The class path p names a class some importable module holds.
ResolvablePath(p) ==
    \E m \in DOMAIN Namespace : \E n \in DOMAIN Namespace[m] : p = m \o <<DOT>> \o n

\* Key k is '<prefix>_metrics...' for the prefix name.
IsMetricKey(k, name) == k # <<>> /\ k[1] \in AtomsWithPrefix[name]

HasMetricKey(d, name) == \E i \in 1..Len(d) : IsMetricKey(d[i].k, name)

\* The class-name token of a metric key '<prefix>_metrics.<token>...'.
HasToken(k) == Len(k) >= 3 /\ k[2] = DOT /\ k[3] # DOT
Token(k) == <<k[3]>>

\* Entry e of a state mapping names something that cannot be resolved.
Unresolvable(e) ==
    \/ e.k \in MarkerKeys /\ ~ResolvablePath(e.v)
    \/ /\ \E name \in {"pixel", "image"} : IsMetricKey(e.k, name)
       /\ HasToken(e.k)
       /\ Token(e.k) \notin DOMAIN Namespace[ModMetrics]

HasUnresolvable(d) == \E i \in 1..Len(d) : Unresolvable(d[i])

IsPrefixOf(p, q) == Len(p) <= Len(q) /\ SubSeq(q, 1, Len(p)) = p

\* d without the entries under the three marker keys, order kept.
WithoutMarkers(d) == SelectSeq(d, LAMBDA e : e.k \notin MarkerKeys)

\* C1: every present threshold or normalization attribute of a saved
\* instance, of a class that resolves to itself and takes no constructor
\* argument, comes back on a fresh instance as an object of the same class
\* when the produced mapping is loaded, and an absent one stays unassigned.
C1_RoundTripKeepsClasses ==
    (/\ lastOp = "load_saved"
     /\ preAttrs = NoAttrs
     /\ \A a \in ThresholdAttrs :
            hasattr(savedAttrs, a) =>
                SelfResolving(savedAttrs[a].cls) /\ ZeroArg[savedAttrs[a].cls])
    => \A a \in ThresholdAttrs :
           IF hasattr(savedAttrs, a)
           THEN hasattr(attrs, a) /\ attrs[a].cls = savedAttrs[a].cls
           ELSE ~hasattr(attrs, a)

C1_Witness ==
    /\ lastOp = "load_saved"
    /\ preAttrs = NoAttrs
    /\ savedAttrs["image_threshold"] = Obj("F1AdaptiveThreshold", "constructor")
    /\ savedAttrs["pixel_threshold"] = Absent
    /\ savedAttrs["normalization_metrics"] = Obj("MinMax", "constructor")
    /\ attrs["image_threshold"] = Obj("F1AdaptiveThreshold", "load")
    /\ attrs["normalization_metrics"] = Obj("MinMax", "load")

\* C2: after load_state_dict on a fresh instance, each of pixel_metrics and
\* image_metrics holds exactly one instance of each metric class the matching
\* keys name, and each such class was instantiated once.
C2_OneInstancePerClass ==
    (LoadDone /\ preAttrs = NoAttrs /\ raised = NoError)
    => \A name \in {"pixel", "image"} :
           HasMetricKey(preState, name) =>
               /\ hasattr(attrs, MetricAttr[name])
               /\ \A c \in Classes :
                      LET named == \E i \in 1..Len(preState) :
                                       /\ IsMetricKey(preState[i].k, name)
                                       /\ HasToken(preState[i].k)
                                       /\ Token(preState[i].k) = ClassName[c]
                                       /\ ClassModule[c] = ModMetrics
                          held == {i \in 1..Len(attrs[MetricAttr[name]].metrics) :
                                       attrs[MetricAttr[name]].metrics[i] = c}
                          made == {i \in 1..Len(insts) :
                                       insts[i].cls = c /\ IsMetricKey(insts[i].key, name)}
                      IN  /\ Cardinality(held) = IF named THEN 1 ELSE 0
                          /\ Cardinality(made) = IF named THEN 1 ELSE 0

\* C3: a load whose mapping names a module or class that cannot be resolved
\* ends in an import-kind error that carries a name and is chained from its
\* cause.
C3_UnresolvableIsImportError ==
    (LoadDone /\ HasUnresolvable(preState))
    => /\ raised.kind \in {"ImportError", "ModuleNotFoundError"}
       /\ raised.names # {}
       /\ raised.cause # Nil

C5_OmittedIsNotImplemented ==
    /\ (stepOp.name \in OverrideNames /\ stepOp.name \notin overrides)
           => stepRaised.kind = "NotImplementedError"
    /\ (stepOp.name \in {"predict_step", "test_step"} /\ "validation_step" \notin overrides)
           => stepRaised.kind = "NotImplementedError"

\* C5 amended: on a subclass that defines both abstract descriptors and
\* leaves out validation_step, the three step functions end in
\* NotImplementedError and return nothing; a subclass that leaves out
\* trainer_arguments or learning_type cannot be instantiated, and every use
\* of it ends in TypeError before any member runs.
C5_OmittedValidationOrAbstract ==
    /\ (/\ CanInstantiate(overrides)
        /\ "validation_step" \notin overrides
        /\ stepOp.name \in {"validation_step", "predict_step", "test_step"})
           => stepRaised.kind = "NotImplementedError" /\ stepOut = NoValue
    /\ (~CanInstantiate(overrides) /\ stepOp.name # "none")
           => stepRaised.kind = "TypeError" /\ stepOut = NoValue /\ calls = <<>>

C5_Witness ==
    /\ overrides = AbstractNames
    /\ stepOp.name = "test_step"
    /\ stepRaised.kind = "NotImplementedError"
    /\ outs["validation_step"] # NoCall
    /\ outs["validation_step"].raised.kind = "NotImplementedError"

\* C6: the mapping the framework's save routine is handed holds a marker key
\* exactly when its attribute exists, with '<module>.<class name>' of the
\* attribute's class as value; the routine is called once and nothing is
\* raised.
C6_MarkersMatchAttributes ==
    lastOp = "save"
    => /\ raised = NoError
       /\ Len(superSave) = 1
       /\ \A a \in ThresholdAttrs :
              /\ HasKey(superSave[1], MarkerKey[a]) <=> hasattr(attrs, a)
              /\ hasattr(attrs, a) =>
                     Get(superSave[1], MarkerKey[a]) = DottedName(attrs[a].cls)

C6_Witness ==
    /\ lastOp = "save"
    /\ hasattr(attrs, "image_threshold")
    /\ ~hasattr(attrs, "pixel_threshold")
    /\ hasattr(attrs, "normalization_metrics")
    /\ attrs["normalization_metrics"].cls = "LocalThreshold"
    /\ HasKey(superSave[1], MarkerKey["normalization_metrics"])
    /\ ~HasKey(superSave[1], MarkerKey["pixel_threshold"])

\* C7: the export test of reverse_distillation and of ai_vad is skipped with a
\* reason before anything is constructed or exported; for any other model
\* engine.export is called once, with that model's checkpoint path and the
\* input size its name fixes.
C7_ExportSkipsOrExportsOnce ==
    testCase.model_name # "none"
    => IF testCase.model_name \in {"reverse_distillation", "ai_vad"}
       THEN /\ testOutcome.kind = "skipped"
            /\ testOutcome.reason # ""
            /\ objects = <<>>
            /\ exportCalls = <<>>
       ELSE /\ testOutcome.kind = "passed"
            /\ Len(exportCalls) = 1
            /\ exportCalls[1].export_type = testCase.export_type
            /\ exportCalls[1].ckpt_path =
                   <<testCase.project_path, "/", testCase.model_name,
                     "/dummy/weights/last.ckpt">>
            /\ exportCalls[1].input_size =
                   CASE testCase.model_name = "win_clip" -> <<240, 240>>
                     [] testCase.model_name = "uflow" -> <<448, 448>>
                     [] OTHER -> <<256, 256>>

C7_Witness ==
    /\ testCase.model_name = "ai_vad"
    /\ testCase.export_type = "torch"
    /\ testOutcome.kind = "skipped"
    /\ exportCalls = <<>>

\* What C8 says of a call that got to the framework's load routine.
DelegatedAfterMarkers ==
    /\ Len(superLoad) = 1
    /\ \A k \in MarkerKeys : ~HasKey(superLoad[1].state_dict, k)
    /\ superLoad[1].state_dict = WithoutMarkers(preState)
    /\ \A a \in ThresholdAttrs :
           HasKey(preState, MarkerKey[a]) =>
               /\ hasattr(attrs, a)
               /\ attrs[a].by = "load"
               /\ Get(preState, MarkerKey[a]) = DottedName(attrs[a].cls)

MarkerlessKept ==
    \A a \in ThresholdAttrs : ~HasKey(preState, MarkerKey[a]) => attrs[a] = preAttrs[a]

\* C8 as stated: every load_state_dict call hands the framework's load
\* routine, once, the mapping without its marker entries and otherwise
\* unchanged, having reassigned the attribute of each marker present; an
\* attribute without marker is left as it was.
C8_AlwaysDelegates == LoadDone => DelegatedAfterMarkers /\ MarkerlessKept

\* C8 amended: the framework's load routine is called at most once; a call
\* that raises nothing before delegating calls it exactly once, with the
\* mapping without its marker entries and otherwise unchanged and with strict
\* as given, having reassigned the attribute of each marker present; in every
\* call an attribute without marker is left as it was.
C8_DelegatesUnlessRaised ==
    LoadDone
    => /\ Len(superLoad) <= 1
       /\ raised = NoError => DelegatedAfterMarkers
       /\ Len(superLoad) = 1 => DelegatedAfterMarkers /\ raised = NoError
       /\ MarkerlessKept

C8_Witness ==
    /\ lastOp = "load"
    /\ raised = NoError
    /\ preAttrs["image_threshold"] = Obj("ManualThreshold", "constructor")
    /\ attrs["image_threshold"] = Obj("F1AdaptiveThreshold", "load")
    /\ ~HasKey(preState, MarkerKey["normalization_metrics"])
    /\ attrs["normalization_metrics"] = Obj("ManualThreshold", "constructor")
    /\ HasMetricKey(preState, "pixel")
    /\ Len(superLoad) = 1
    /\ HasMetricKey(superLoad[1].state_dict, "pixel")

\* A collection for the prefix came into being during the last load.
Created(name) == ~hasattr(preAttrs, MetricAttr[name]) /\ hasattr(attrs, MetricAttr[name])

\* What C9 says of an attribute that existed, and of a prefix no key matches.
ExistingKept(name) ==
    /\ hasattr(preAttrs, MetricAttr[name]) =>
           /\ hasattr(attrs, MetricAttr[name])
           /\ attrs[MetricAttr[name]].id = preAttrs[MetricAttr[name]].id
           /\ attrs[MetricAttr[name]].prefix = preAttrs[MetricAttr[name]].prefix
           /\ IsPrefixOf(preAttrs[MetricAttr[name]].metrics, attrs[MetricAttr[name]].metrics)
    /\ ~HasMetricKey(preState, name) => attrs[MetricAttr[name]] = preAttrs[MetricAttr[name]]
    /\ Created(name) =>
           /\ attrs[MetricAttr[name]].prefix = name
           /\ \A m \in MetricAttrs :
                  hasattr(preAttrs, m) => preAttrs[m].id # attrs[MetricAttr[name]].id

\* C9 as stated: a collection is created exactly when a key matches the
\* prefix and the attribute does not exist yet.
C9_CreatedIffKeyAndAbsent ==
    LoadDone
    => \A name \in {"pixel", "image"} :
           /\ Created(name) <=>
                  (HasMetricKey(preState, name) /\ ~hasattr(preAttrs, MetricAttr[name]))
           /\ ExistingKept(name)

\* C9 amended: a collection tagged with the prefix is created exactly when a
\* key matches the prefix, the attribute does not exist yet and the call got
\* to that prefix's _add_metrics without raising; an existing collection is
\* kept, its metrics still leading the list, and a prefix no key matches
\* leaves its attribute alone.
C9_CreatedIffReachedKeyAndAbsent ==
    LoadDone
    => \A name \in {"pixel", "image"} :
           /\ Created(name) <=>
                  (/\ name \in reached
                   /\ HasMetricKey(preState, name)
                   /\ ~hasattr(preAttrs, MetricAttr[name]))
           /\ ExistingKept(name)

C9_Witness ==
    /\ lastOp = "load"
    /\ HasMetricKey(preState, "pixel") /\ HasMetricKey(preState, "image")
    /\ hasattr(preAttrs, "pixel_metrics") /\ ~hasattr(preAttrs, "image_metrics")
    /\ Len(attrs["pixel_metrics"].metrics) = 2
    /\ Created("image")
    /\ attrs["image_metrics"].metrics = <<"F1Score">>

\* C10: a load whose mapping names something that cannot be resolved raises
\* out of the call, never reaches the framework's load routine, and after the
\* resolution that failed makes no other: it is the last attempt and no entry
\* is resolved twice.
C10_FailureIsFatalOnce ==
    (LoadDone /\ HasUnresolvable(preState))
    => /\ raised # NoError
       /\ superLoad = <<>>
       /\ \A i \in 1..Len(attempts) : ~attempts[i].resolved => i = Len(attempts)
       /\ \A i, j \in 1..Len(attempts) : attempts[i].key = attempts[j].key => i = j

C10_Witness ==
    /\ lastOp = "load"
    /\ Len(attempts) = 3
    /\ attempts[1].resolved /\ attempts[2].resolved /\ ~attempts[3].resolved
    /\ IsMetricKey(attempts[3].key, "pixel")
    /\ raised.kind = "ImportError"
    /\ superLoad = <<>>

====
